---- MODULE Spec2Model ----
(***************************************************************************)
(* Model of the Roblox gamepasses proxy (src/src/index.js): the rate       *)
(* limiter, the userId validation, the in-memory cache and the aggregation *)
(* pipeline of GET /gamepasses/:userId, and the info route GET /.          *)
(*                                                                         *)
(* Time is counted in units of 2.5 minutes (150 000 ms), so that           *)
(* CACHE_TTL = 5 min = 2 units and windowMs = 15 min = 6 units.            *)
(* Strings that the code inspects character by character (the userId path  *)
(* parameter) are sequences of one-character strings.                      *)
(***************************************************************************)
EXTENDS Integers, Sequences, FiniteSets, TLC

VARIABLES
    now,        \* Date.now(), in time units
    limiter,    \* express-rate-limit store: client -> [totalHits, resetTime]
    cache,      \* const cache = new Map(): userId -> entry or NoEntry
    req,        \* the requests being served: slot -> the handler's locals
    window,     \* history: client -> [start, count] requests seen per window
    obs,        \* history: allowed requests of ObsClient in one time interval
    raced       \* history: slot -> another run wrote its identity's entry meanwhile

vars == <<now, limiter, cache, req, window, obs, raced>>

----------------------------------------------------------------------------
\* Program constants
CACHE_TTL == 2
windowMs == 6
max == 100
ChunkSize == 100

MsgTooMany == "Too many requests, please try again later."
MsgInvalid == "Invalid userId provided."
MsgForbidden == "Access to Roblox API forbidden."
MsgFailed == "Failed to fetch data from Roblox."

\* Bounds of the model
MaxTime == 2        \* the clock stops here (cache specifications)
GateMaxTime == 2    \* the clock stops here (two-client limiter specification)
SpanMaxTime == 6    \* the clock stops here (one-client interval specification)
MaxOver == 2        \* requests a client may send beyond max in one window
MaxRequests == 3    \* requests per client and window where the limit is not explored
MaxPages == 2       \* pages the upstream serves per universe before ending

----------------------------------------------------------------------------
\* JavaScript's isNaN on a string: Number(s) per StringToNumber

Digit == {"0", "1", "2", "3", "4", "5", "6", "7", "8", "9"}
HexDigit == Digit \cup {"a", "b", "c", "d", "e", "f", "A", "B", "C", "D", "E", "F"}
WhiteSpace == {" "}
StrInfinity == <<"I", "n", "f", "i", "n", "i", "t", "y">>

AllIn(s, S) == \A i \in 1..Len(s) : s[i] \in S

IsDigits(s) == Len(s) > 0 /\ AllIn(s, Digit)

RECURSIVE TrimLeft(_)
TrimLeft(s) ==
    IF s # <<>> /\ Head(s) \in WhiteSpace THEN TrimLeft(Tail(s)) ELSE s

RECURSIVE TrimRight(_)
TrimRight(s) ==
    IF s # <<>> /\ s[Len(s)] \in WhiteSpace
    THEN TrimRight(SubSeq(s, 1, Len(s) - 1))
    ELSE s

Trim(s) == TrimRight(TrimLeft(s))

\* ExponentPart: e or E, an optional sign, digits
IsExponent(s) ==
    /\ Len(s) >= 2
    /\ s[1] \in {"e", "E"}
    /\ IF s[2] \in {"+", "-"}
       THEN IsDigits(SubSeq(s, 3, Len(s)))
       ELSE IsDigits(Tail(s))

\* digits, digits "." digits?, or "." digits
IsMantissa(s) ==
    \/ IsDigits(s)
    \/ /\ Len(s) > 1
       /\ \E k \in 1..Len(s) :
            /\ s[k] = "."
            /\ AllIn(SubSeq(s, 1, k - 1), Digit)
            /\ AllIn(SubSeq(s, k + 1, Len(s)), Digit)

IsUnsignedDecimal(s) ==
    \/ s = StrInfinity
    \/ \E k \in 1..Len(s) :
         /\ IsMantissa(SubSeq(s, 1, k))
         /\ (k = Len(s) \/ IsExponent(SubSeq(s, k + 1, Len(s))))

IsStrDecimalLiteral(s) ==
    IF s # <<>> /\ Head(s) \in {"+", "-"}
    THEN IsUnsignedDecimal(Tail(s))
    ELSE IsUnsignedDecimal(s)

\* 0x, 0o and 0b literals take no sign
IsNonDecimalLiteral(s) ==
    /\ Len(s) >= 3
    /\ s[1] = "0"
    /\ \/ s[2] \in {"x", "X"} /\ AllIn(SubSeq(s, 3, Len(s)), HexDigit)
       \/ s[2] \in {"o", "O"} /\ AllIn(SubSeq(s, 3, Len(s)), {"0", "1", "2", "3", "4", "5", "6", "7"})
       \/ s[2] \in {"b", "B"} /\ AllIn(SubSeq(s, 3, Len(s)), {"0", "1"})

\* Number(s) is a number (not NaN): blank strings convert to 0
StringIsNumber(s) ==
    LET t == Trim(s)
    IN  t = <<>> \/ IsStrDecimalLiteral(t) \/ IsNonDecimalLiteral(t)

isNaN(s) == ~StringIsNumber(s)

\* if (!userId || isNaN(userId))
InvalidUserId(userId) == userId = <<>> \/ isNaN(userId)

\* a string of decimal digits only: a non-negative integer
AllNumeric(userId) == IsDigits(userId)

----------------------------------------------------------------------------
\* Inputs

Clients == {"ip1", "ip2"}
ObsClient == "ip1"
Slots == {1, 2}

U7 == <<"7">>
U42 == <<"4", "2">>

\* path parameters a client may send
UserIdInputs ==
    { U7, U42, <<"0", "0", "7">>,
      <<"a", "b", "c">>, <<"7", "a">>, <<"-", "5">>, <<"+", "5">>,
      <<"1", ".", "5">>, <<".", "5">>, <<"1", "e", "3">>, <<"0", "x", "1", "A">>,
      <<" ">>, <<" ", "7">>, <<"-">>, <<".">>, <<"e", "3">>, <<"1", "e">>,
      <<"0", "x">>, <<"-", "0", "x", "1">>, <<"7", " ", "7">>, StrInfinity }

----------------------------------------------------------------------------
\* The rate limiter

NoClient == [totalHits |-> 0, resetTime |-> 0]

\* the store's increment: an expired (or absent) record starts a new window
Increment(client, t) ==
    LET base == IF client.resetTime <= t
                THEN [totalHits |-> 0, resetTime |-> t + windowMs]
                ELSE client
    IN  [base EXCEPT !.totalHits = @ + 1]

MutLimitReached(totalHits) == totalHits >= max

MutLimitReachedLate(totalHits) == totalHits > max + 1

\* the middleware denies once the window's count exceeds max
LimitReached(totalHits) == totalHits > max

\* history: the requests of one client since its window began
NoWindow == [start |-> 0 - windowMs, count |-> 0]

Seen(w, t) ==
    IF t >= w.start + windowMs
    THEN [start |-> t, count |-> 1]
    ELSE [w EXCEPT !.count = @ + 1]

NoObs == 0 - 1

Observe(o, client, allowed, t) ==
    IF /\ o.start # NoObs
       /\ client = ObsClient
       /\ allowed
       /\ o.start <= t
       /\ t < o.start + windowMs
    THEN [o EXCEPT !.allowed = @ + 1]
    ELSE o

----------------------------------------------------------------------------
\* The cache

NoEntry == [present |-> FALSE, timestamp |-> 0, data |-> <<>>]

MutEntryAtZero(t, items) == [present |-> TRUE, timestamp |-> 0, data |-> items]

Entry(t, items) == [present |-> TRUE, timestamp |-> t, data |-> items]

MutCacheFreshInverted(entry, t) == entry.present /\ t - entry.timestamp > CACHE_TTL

MutCacheFresh(entry, t) == entry.present /\ t - entry.timestamp <= CACHE_TTL

\* cachedData && (Date.now() - cachedData.timestamp < CACHE_TTL)
CacheFresh(entry, t) == entry.present /\ t - entry.timestamp < CACHE_TTL

MutCacheSetFirstWins(c, userId, t, items) ==
    IF c[userId].present THEN c ELSE [c EXCEPT ![userId] = Entry(t, items)]

MutCacheSetEvict(c, userId, t, items) ==
    [c EXCEPT ![userId] = IF c[userId].present THEN NoEntry ELSE Entry(t, items)]

MutCacheSetShared(c, userId, t, items) == [u \in DOMAIN c |-> Entry(t, items)]

\* cache.set(userId, { timestamp: Date.now(), data: allGamePasses })
CacheSet(c, userId, t, items) == [c EXCEPT ![userId] = Entry(t, items)]

----------------------------------------------------------------------------
\* Upstream calls and responses

GamesCall(userId) ==
    [kind |-> "games", userId |-> userId, universeId |-> 0, cursor |-> "", ids |-> <<>>]

PassesCall(universeId, cursor) ==
    [kind |-> "passes", userId |-> <<>>, universeId |-> universeId, cursor |-> cursor, ids |-> <<>>]

ThumbsCall(chunk) ==
    [kind |-> "thumbs", userId |-> <<>>, universeId |-> 0, cursor |-> "", ids |-> chunk]

\* a rejected axios promise: status 0 is a network error (no error.response)
Failure(status) ==
    [ok |-> FALSE, status |-> status, hasData |-> FALSE, data |-> <<>>, nextPageCursor |-> ""]

\* a 2xx response body: { data: [...], nextPageCursor: ... }, fields possibly missing
Success(hasData, data, cursor) ==
    [ok |-> TRUE, status |-> 200, hasData |-> hasData, data |-> data, nextPageCursor |-> cursor]

CursorNull == "<null>"
CursorUndefined == "<undefined>"

MutTruthy(cursor) == cursor # ""

\* while (gamePassCursor): null, undefined and "" end the loop
Truthy(cursor) == cursor \notin {"", CursorNull, CursorUndefined}

MutOrEmpty(resp) ==
    IF resp.hasData
    THEN resp.data
    ELSE <<[id |-> 0, name |-> "", price |-> 0, targetId |-> 0, imageUrl |-> ""]>>

\* response.data.data || []
OrEmpty(resp) == IF resp.hasData THEN resp.data ELSE <<>>

NoPrice == 0 - 1

\* gp.price || 0
PriceOrZero(price) == IF price = NoPrice THEN 0 ELSE price

MapPass(gp) ==
    [id |-> gp.id, name |-> gp.name, price |-> PriceOrZero(gp.price), iconImageUrl |-> ""]

MapPasses(passes) == [i \in 1..Len(passes) |-> MapPass(passes[i])]

MutAppendPasses(allGamePasses, passes) == MapPasses(passes) \o allGamePasses

\* allGamePasses.push(...passes.map(...))
AppendPasses(allGamePasses, passes) == allGamePasses \o MapPasses(passes)

Min(a, b) == IF a < b THEN a ELSE b

MutChunks(passIds) == IF passIds = <<>> THEN <<>> ELSE <<passIds>>

\* for (let i = 0; i < passIds.length; i += 100) chunks.push(passIds.slice(i, i + 100))
RECURSIVE Chunks(_)
Chunks(passIds) ==
    IF passIds = <<>>
    THEN <<>>
    ELSE <<SubSeq(passIds, 1, Min(ChunkSize, Len(passIds)))>>
         \o Chunks(SubSeq(passIds, ChunkSize + 1, Len(passIds)))

PassIds(allGamePasses) == [i \in 1..Len(allGamePasses) |-> allGamePasses[i].id]

\* allGamePasses.find(p => p.id === thumb.targetId): the first index, 0 when none
FindPass(allGamePasses, targetId) ==
    LET hits == {i \in 1..Len(allGamePasses) : allGamePasses[i].id = targetId}
    IN  IF hits = {} THEN 0 ELSE CHOOSE i \in hits : \A j \in hits : i <= j

MutApplyThumb(allGamePasses, thumb) ==
    [i \in 1..Len(allGamePasses) |->
        [allGamePasses[i] EXCEPT !.iconImageUrl = thumb.imageUrl]]

\* if (pass) pass.iconImageUrl = thumb.imageUrl
ApplyThumb(allGamePasses, thumb) ==
    LET i == FindPass(allGamePasses, thumb.targetId)
    IN  IF i = 0
        THEN allGamePasses
        ELSE [allGamePasses EXCEPT ![i].iconImageUrl = thumb.imageUrl]

\* thumbs.forEach(...)
RECURSIVE MergeThumbs(_, _)
MergeThumbs(allGamePasses, thumbs) ==
    IF thumbs = <<>>
    THEN allGamePasses
    ELSE MergeThumbs(ApplyThumb(allGamePasses, Head(thumbs)), Tail(thumbs))

----------------------------------------------------------------------------
\* One request: the handler's locals, plus what it did so far (history)

IdleReq ==
    [ pc |-> "idle",            \* idle, games, passes, thumbs (awaiting that call), done
      route |-> "", client |-> "", userId |-> <<>>,
      universes |-> <<>>, ui |-> 0, gamePassCursor |-> "", page |-> 0,
      allGamePasses |-> <<>>, chunks |-> <<>>, ci |-> 0,
      status |-> 0, error |-> "", items |-> <<>>,     \* the response sent
      counted |-> FALSE, validated |-> FALSE, found |-> "", wrote |-> FALSE,
      storedAt |-> 0, startEntry |-> NoEntry,
      calls |-> <<>>, resps |-> <<>> ]

\* res.status(status).json({ error })
RespondError(q, status, error) ==
    [q EXCEPT !.pc = "done", !.status = status, !.error = error]

\* res.json(items)
RespondItems(q, items) ==
    [q EXCEPT !.pc = "done", !.status = 200, !.items = items]

MutAbort(q, resp) == RespondItems([q EXCEPT !.wrote = TRUE], q.allGamePasses)

MutAbortGeneric(q, resp) == RespondError(q, 502, MsgFailed)

\* the catch block
Abort(q, resp) ==
    RespondError(q, 502, IF resp.status = 403 THEN MsgForbidden ELSE MsgFailed)

Call(q, pc, call) == [q EXCEPT !.pc = pc, !.calls = Append(@, call)]

\* Update cache, then res.json(allGamePasses)
Finish(q) == RespondItems([q EXCEPT !.wrote = TRUE], q.allGamePasses)

\* Step 2 up to the first thumbnail call
StartThumbs(q) ==
    IF Len(q.allGamePasses) > 0
    THEN LET chunks == Chunks(PassIds(q.allGamePasses))
         IN  Call([q EXCEPT !.chunks = chunks, !.ci = 1], "thumbs", ThumbsCall(chunks[1]))
    ELSE Finish(q)

MutNextUniverse(q) ==
    IF q.ui < Len(q.universes)
    THEN Call([q EXCEPT !.ui = @ + 1, !.gamePassCursor = "", !.page = 1],
              "passes", PassesCall(q.universes[Len(q.universes) - q.ui].id, ""))
    ELSE StartThumbs(q)

\* for (const universe of universes): the next universe's first page, cursor ''
NextUniverse(q) ==
    IF q.ui < Len(q.universes)
    THEN Call([q EXCEPT !.ui = @ + 1, !.gamePassCursor = "", !.page = 1],
              "passes", PassesCall(q.universes[q.ui + 1].id, ""))
    ELSE StartThumbs(q)

AfterGames(q, resp) ==
    IF ~resp.ok
    THEN Abort(q, resp)
    ELSE NextUniverse([q EXCEPT !.universes = OrEmpty(resp), !.ui = 0])

AfterPasses(q, resp) ==
    IF ~resp.ok
    THEN Abort(q, resp)
    ELSE LET q1 == [q EXCEPT !.allGamePasses = AppendPasses(@, OrEmpty(resp)),
                             !.gamePassCursor = resp.nextPageCursor]
         IN  IF Truthy(q1.gamePassCursor)
             THEN Call([q1 EXCEPT !.page = @ + 1], "passes",
                       PassesCall(q1.universes[q1.ui].id, q1.gamePassCursor))
             ELSE NextUniverse(q1)

AfterThumbs(q, resp) ==
    IF ~resp.ok
    THEN Abort(q, resp)
    ELSE LET q1 == [q EXCEPT !.allGamePasses = MergeThumbs(@, OrEmpty(resp))]
         IN  IF q1.ci < Len(q1.chunks)
             THEN Call([q1 EXCEPT !.ci = @ + 1], "thumbs", ThumbsCall(q1.chunks[q1.ci + 1]))
             ELSE Finish(q1)

\* app.get('/gamepasses/:userId', ...) up to the first await
GetGamepasses(q, entry, t) ==
    IF InvalidUserId(q.userId)
    THEN RespondError([q EXCEPT !.validated = TRUE], 400, MsgInvalid)
    ELSE LET q1 == [q EXCEPT !.validated = TRUE, !.startEntry = entry,
                             !.found = IF ~entry.present THEN "absent"
                                       ELSE IF CacheFresh(entry, t) THEN "fresh"
                                       ELSE "stale"]
         IN  IF CacheFresh(entry, t)
             THEN RespondItems(q1, entry.data)
             ELSE Call(q1, "games", GamesCall(q1.userId))

\* app.get('/', ...)
GetRoot(q) == [q EXCEPT !.pc = "done", !.status = 200]

MutLimiterMounted(route) == FALSE

\* app.use(limiter) comes after app.get('/') and before app.get('/gamepasses/:userId'):
\* a route registered before the limiter answers without passing through it
LimiterMounted(route) == route = "gamepasses"

----------------------------------------------------------------------------
\* State and actions

Init ==
    /\ now = 0
    /\ limiter = [c \in Clients |-> NoClient]
    /\ cache = [u \in UserIdInputs |-> NoEntry]
    /\ req = [r \in Slots |-> IdleReq]
    /\ window = [c \in Clients |-> NoWindow]
    /\ obs = [start |-> NoObs, allowed |-> 0]
    /\ raced = [r \in Slots |-> FALSE]

\* the clock advances
Tick(cap) ==
    /\ now < cap
    /\ now' = now + 1
    /\ UNCHANGED <<limiter, cache, req, window, obs, raced>>

\* a request arrives and runs to its response or to its first upstream call
Receive(r, c, route, userId) ==
    /\ req[r].pc = "idle"
    /\ \A r2 \in Slots : req[r2].pc = "idle" => r <= r2
    /\ LET gated == LimiterMounted(route)
           lim == IF gated THEN Increment(limiter[c], now) ELSE limiter[c]
           denied == gated /\ LimitReached(lim.totalHits)
           w == IF route = "gamepasses" THEN Seen(window[c], now) ELSE window[c]
           q == [IdleReq EXCEPT !.route = route, !.client = c, !.userId = userId,
                                !.counted = gated]
       IN  /\ limiter' = [limiter EXCEPT ![c] = lim]
           /\ window' = [window EXCEPT ![c] = w]
           /\ obs' = Observe(obs, c, ~denied, now)
           /\ req' = [req EXCEPT ![r] =
                        IF denied THEN RespondError(q, 429, MsgTooMany)
                        ELSE IF route = "root" THEN GetRoot(q)
                        ELSE GetGamepasses(q, cache[userId], now)]
    /\ UNCHANGED <<now, cache, raced>>

\* the continuation after an await: the cache is written when the run finishes
Resume(r, q) ==
    /\ req' = [req EXCEPT ![r] = IF q.wrote THEN [q EXCEPT !.storedAt = now] ELSE q]
    /\ cache' = IF q.wrote THEN CacheSet(cache, q.userId, now, q.items) ELSE cache
    /\ raced' = [s \in Slots |->
                   \/ raced[s]
                   \/ /\ s # r /\ q.wrote
                      /\ req[s].pc \in {"games", "passes", "thumbs"}
                      /\ req[s].userId = q.userId]
    /\ UNCHANGED <<now, limiter, window, obs>>

GamesReturns(r, resp) ==
    /\ req[r].pc = "games"
    /\ Resume(r, AfterGames([req[r] EXCEPT !.resps = Append(@, resp)], resp))

PassesReturns(r, resp) ==
    /\ req[r].pc = "passes"
    /\ Truthy(resp.nextPageCursor) => req[r].page < MaxPages
    /\ Resume(r, AfterPasses([req[r] EXCEPT !.resps = Append(@, resp)], resp))

ThumbsReturns(r, resp) ==
    /\ req[r].pc = "thumbs"
    /\ Resume(r, AfterThumbs([req[r] EXCEPT !.resps = Append(@, resp)], resp))

\* the response has been delivered; the slot serves the next request
Close(r) ==
    /\ req[r].pc = "done"
    /\ req' = [req EXCEPT ![r] = IdleReq]
    /\ raced' = [raced EXCEPT ![r] = FALSE]
    /\ UNCHANGED <<now, limiter, cache, window, obs>>

----------------------------------------------------------------------------
\* Upstream data

UniverseA == [id |-> 10]
UniverseB == [id |-> 20]

GpA == [id |-> 1, name |-> "A", price |-> 5]
GpB == [id |-> 2, name |-> "B", price |-> NoPrice]
GpC == [id |-> 3, name |-> "C", price |-> 0]

Thumb(targetId, imageUrl) == [targetId |-> targetId, imageUrl |-> imageUrl]

----------------------------------------------------------------------------
\* The server under concurrent requests of one client for two identities

MainUserIds == {U7, U42}

MainGames == {Failure(403), Success(TRUE, <<UniverseA>>, "")}

MainPasses == {Failure(500), Success(TRUE, <<GpA>>, ""), Success(TRUE, <<GpB>>, "")}

MainThumbs == {Failure(0), Success(TRUE, <<Thumb(1, "url1")>>, "")}

Next ==
    \/ Tick(MaxTime)
    \/ \E r \in Slots, userId \in MainUserIds :
         /\ limiter["ip1"].totalHits < MaxRequests
         /\ Receive(r, "ip1", "gamepasses", userId)
    \/ \E r \in Slots, resp \in MainGames : GamesReturns(r, resp)
    \/ \E r \in Slots, resp \in MainPasses : PassesReturns(r, resp)
    \/ \E r \in Slots, resp \in MainThumbs : ThumbsReturns(r, resp)
    \/ \E r \in Slots : Close(r)

Spec == Init /\ [][Next]_vars

----------------------------------------------------------------------------
\* One pipeline run against an upstream serving several universes and pages

PipeGames ==
    { Failure(403), Failure(0),
      Success(FALSE, <<>>, ""), Success(TRUE, <<>>, ""),
      Success(TRUE, <<UniverseA>>, ""), Success(TRUE, <<UniverseA, UniverseB>>, "") }

PipePasses ==
    { Failure(403), Failure(500),
      Success(TRUE, <<GpA>>, "c1"), Success(TRUE, <<>>, "c2"),
      Success(TRUE, <<GpA>>, ""), Success(TRUE, <<GpA, GpB>>, ""),
      Success(TRUE, <<GpB>>, CursorNull), Success(TRUE, <<GpC>>, ""),
      Success(FALSE, <<>>, CursorUndefined) }

PipeThumbs ==
    { Failure(403), Failure(0),
      Success(FALSE, <<>>, ""), Success(TRUE, <<>>, ""),
      Success(TRUE, <<Thumb(1, "url1"), Thumb(3, "url3")>>, ""),
      Success(TRUE, <<Thumb(2, "url2")>>, ""),
      Success(TRUE, <<Thumb(1, "url1"), Thumb(1, "url1b")>>, ""),
      Success(TRUE, <<Thumb(9, "url9")>>, "") }

NextPipe ==
    \/ /\ limiter["ip1"].totalHits < 1
       /\ Receive(1, "ip1", "gamepasses", U7)
    \/ \E resp \in PipeGames : GamesReturns(1, resp)
    \/ \E resp \in PipePasses : PassesReturns(1, resp)
    \/ \E resp \in PipeThumbs : ThumbsReturns(1, resp)

SpecPipe == Init /\ [][NextPipe]_vars

\* the same run when every upstream call returns: the awaited call's
\* continuation is eventually run, and the upstream ends each universe's
\* pages (PassesReturns serves no cursor beyond MaxPages)
SpecPipeLive ==
    /\ Init
    /\ [][NextPipe]_vars
    /\ WF_vars(\E resp \in PipeGames : GamesReturns(1, resp))
    /\ WF_vars(\E resp \in PipePasses : PassesReturns(1, resp))
    /\ WF_vars(\E resp \in PipeThumbs : ThumbsReturns(1, resp))

----------------------------------------------------------------------------
\* One client sending any path parameter, one request after the other

ValidateGames == {Failure(403), Success(FALSE, <<>>, "")}

NextValidate ==
    \/ \E userId \in UserIdInputs :
         /\ limiter["ip1"].totalHits < MaxRequests
         /\ Receive(1, "ip1", "gamepasses", userId)
    \/ \E resp \in ValidateGames : GamesReturns(1, resp)
    \/ Close(1)

SpecValidate == Init /\ [][NextValidate]_vars

----------------------------------------------------------------------------
\* One client exhausting its budget with valid, invalid and cached requests

SeqUserIds == {U7, <<"a", "b", "c">>}

NextSeq ==
    \/ Tick(MaxTime)
    \/ \E userId \in SeqUserIds :
         /\ limiter["ip1"].totalHits < max + MaxOver
         /\ Receive(1, "ip1", "gamepasses", userId)
    \/ \E resp \in ValidateGames : GamesReturns(1, resp)
    \/ Close(1)

SpecSeq == Init /\ [][NextSeq]_vars

----------------------------------------------------------------------------
\* Two clients and both routes: only the limiter's state changes

NextGate ==
    \/ Tick(GateMaxTime)
    \/ \E c \in Clients :
         /\ limiter[c].totalHits < (IF c = ObsClient THEN max + MaxOver ELSE MaxRequests)
         /\ Receive(1, c, "gamepasses", <<"a", "b", "c">>)
    \/ \E c \in Clients : Receive(1, c, "root", <<>>)
    \/ Close(1)

SpecGate == Init /\ [][NextGate]_vars

----------------------------------------------------------------------------
\* One client over more than one window, its allowed requests counted in
\* the interval [obs.start, obs.start + windowMs)

ObsStarts == {1, 3}

InitSpan ==
    /\ now = 0
    /\ limiter = [c \in Clients |-> NoClient]
    /\ cache = [u \in UserIdInputs |-> NoEntry]
    /\ req = [r \in Slots |-> IdleReq]
    /\ window = [c \in Clients |-> NoWindow]
    /\ \E s \in ObsStarts : obs = [start |-> s, allowed |-> 0]
    /\ raced = [r \in Slots |-> FALSE]

NextSpan ==
    \/ Tick(SpanMaxTime)
    \/ /\ limiter[ObsClient].resetTime > now => limiter[ObsClient].totalHits < max + MaxOver
       /\ Receive(1, ObsClient, "gamepasses", <<"a", "b", "c">>)
    \/ Close(1)

SpecSpan == InitSpan /\ [][NextSpan]_vars

----------------------------------------------------------------------------
\* One pipeline run against an upstream serving full pages (limit=100) of
\* sub-items with distinct ids

PageSizes == {0, 50, ChunkSize}

\* n sub-items with the ids first, first + 1, ...
Batch(first, n) == [i \in 1..n |-> [id |-> first + i - 1, name |-> "P", price |-> 1]]

ChunkGames == {Success(TRUE, <<UniverseA>>, ""), Success(TRUE, <<UniverseA, UniverseB>>, "")}

ChunkThumbs == {Failure(500), Success(TRUE, <<Thumb(1, "url1")>>, "")}

NextChunk ==
    \/ /\ limiter["ip1"].totalHits < 1
       /\ Receive(1, "ip1", "gamepasses", U7)
    \/ \E resp \in ChunkGames : GamesReturns(1, resp)
    \/ \E n \in PageSizes, cursor \in {"", "c1"} :
         PassesReturns(1, Success(TRUE, Batch(Len(req[1].allGamePasses) + 1, n), cursor))
    \/ \E resp \in ChunkThumbs : ThumbsReturns(1, resp)

SpecChunk == Init /\ [][NextChunk]_vars

----------------------------------------------------------------------------
\* Concurrent requests for one identity against an upstream whose three
\* calls can each fail with 403 or otherwise

FailGames == {Failure(403), Failure(500), Success(TRUE, <<UniverseA>>, "")}

FailPasses == {Failure(403), Failure(0), Success(TRUE, <<GpA>>, "")}

FailThumbs == {Failure(403), Failure(404), Success(TRUE, <<Thumb(1, "url1")>>, "")}

NextFail ==
    \/ \E r \in Slots :
         /\ limiter["ip1"].totalHits < MaxRequests
         /\ Receive(r, "ip1", "gamepasses", U7)
    \/ \E r \in Slots, resp \in FailGames : GamesReturns(r, resp)
    \/ \E r \in Slots, resp \in FailPasses : PassesReturns(r, resp)
    \/ \E r \in Slots, resp \in FailThumbs : ThumbsReturns(r, resp)
    \/ \E r \in Slots : Close(r)

SpecFail == Init /\ [][NextFail]_vars

----------------------------------------------------------------------------
\* Vocabulary of the properties

InFlight(q) == q.pc \in {"games", "passes", "thumbs"}

\* the run of q completed: every upstream call succeeded, the result was cached and sent
Succeeded(q) == q.pc = "done" /\ q.status = 200 /\ q.wrote

Last(s) == s[Len(s)]

\* id, name and price of the items, as the upstream gave them (price defaulted)
Bare(items) ==
    [i \in 1..Len(items) |->
        [id |-> items[i].id, name |-> items[i].name, price |-> items[i].price]]

BareGp(gp) ==
    [id |-> gp.id, name |-> gp.name, price |-> IF gp.price = NoPrice THEN 0 ELSE gp.price]

\* the sub-items the upstream returned for one universe, pages in call order
RECURSIVE PagesFrom(_, _, _)
PagesFrom(q, universeId, i) ==
    IF i > Len(q.resps)
    THEN <<>>
    ELSE (IF q.calls[i].kind = "passes" /\ q.calls[i].universeId = universeId /\ q.resps[i].ok
          THEN OrEmpty(q.resps[i])
          ELSE <<>>)
         \o PagesFrom(q, universeId, i + 1)

\* the universes the upstream listed (the first response of a run)
Listed(q) == IF q.resps # <<>> /\ q.resps[1].ok THEN OrEmpty(q.resps[1]) ELSE <<>>

RECURSIVE ListedFrom(_, _)
ListedFrom(q, k) ==
    IF k > Len(Listed(q))
    THEN <<>>
    ELSE PagesFrom(q, Listed(q)[k].id, 1) \o ListedFrom(q, k + 1)

\* collections in listing order, each one's sub-items in page order
Expected(q) == LET gps == ListedFrom(q, 1) IN [i \in 1..Len(gps) |-> BareGp(gps[i])]

\* every {targetId, imageUrl} the batch lookups returned, in order
RECURSIVE ThumbsFrom(_, _)
ThumbsFrom(q, i) ==
    IF i > Len(q.resps)
    THEN <<>>
    ELSE (IF q.calls[i].kind = "thumbs" /\ q.resps[i].ok THEN OrEmpty(q.resps[i]) ELSE <<>>)
         \o ThumbsFrom(q, i + 1)

Returned(thumbs, id) == {j \in 1..Len(thumbs) : thumbs[j].targetId = id}

LastUrl(thumbs, id) ==
    thumbs[CHOOSE j \in Returned(thumbs, id) : \A k \in Returned(thumbs, id) : k <= j].imageUrl

\* the id lists of the batch lookups issued so far, in call order
RECURSIVE ThumbCalls(_, _)
ThumbCalls(q, i) ==
    IF i > Len(q.calls)
    THEN <<>>
    ELSE (IF q.calls[i].kind = "thumbs" THEN <<q.calls[i].ids>> ELSE <<>>)
         \o ThumbCalls(q, i + 1)

RECURSIVE Concat(_)
Concat(ss) == IF ss = <<>> THEN <<>> ELSE Head(ss) \o Concat(Tail(ss))

----------------------------------------------------------------------------
\* C1 as stated: once a run has stored (timestamp, items) under an identity,
\* every later request for that identity handled while now - timestamp < TTL
\* is answered with exactly those items, whatever requests are interleaved.
C1_StoredItemsServed ==
    [][\A r1, r2 \in Slots :
         ( /\ Succeeded(req[r1])
           /\ now - req[r1].storedAt < CACHE_TTL
           /\ req[r2].pc = "idle" /\ req'[r2].pc # "idle"
           /\ req'[r2].found # ""
           /\ req'[r2].userId = req[r1].userId )
         => ( /\ req'[r2].pc = "done" /\ req'[r2].status = 200
              /\ req'[r2].items = req[r1].items
              /\ req'[r2].calls = <<>> )]_vars

\* C1 amended: a request handled while the identity's current cache entry
\* (timestamp, items) satisfies now - timestamp < TTL is answered with exactly
\* that entry's items without any upstream call and without touching the
\* cache; and the current entry is always (time of write, items returned)
\* of the run that wrote the cache last.
C1_FreshEntryServed ==
    [][\A r \in Slots :
         /\ ( /\ req[r].pc = "idle" /\ req'[r].pc # "idle"
              /\ req'[r].found # ""
              /\ cache[req'[r].userId].present
              /\ now - cache[req'[r].userId].timestamp < CACHE_TTL )
            => ( /\ req'[r].pc = "done" /\ req'[r].status = 200
                 /\ req'[r].items = cache[req'[r].userId].data
                 /\ req'[r].calls = <<>>
                 /\ cache' = cache )
         /\ \A u \in UserIdInputs :
              (req'[r] # req[r] /\ cache'[u] # cache[u])
              => ( /\ Succeeded(req'[r]) /\ ~req[r].wrote
                   /\ req'[r].userId = u
                   /\ cache'[u] = Entry(now, req'[r].items) )]_vars

\* a request served from an entry that replaced what an earlier run had stored
C1_Witness ==
    \E r1, r2 \in Slots :
        /\ Succeeded(req[r1])
        /\ now - req[r1].storedAt < CACHE_TTL
        /\ req[r2].pc = "done" /\ req[r2].found = "fresh"
        /\ req[r2].userId = req[r1].userId
        /\ req[r2].items = cache[req[r2].userId].data
        /\ req[r2].items # req[r1].items

C3_TtlStrict ==
    [][\A r \in Slots :
         /\ (req[r].pc = "idle" /\ req'[r].pc # "idle" /\ req'[r].found # "")
            => LET e == cache[req'[r].userId]
               IN  IF e.present /\ now - e.timestamp < CACHE_TTL
                   THEN /\ req'[r].pc = "done" /\ req'[r].calls = <<>>
                        /\ req'[r].items = e.data
                   ELSE /\ req'[r].pc = "games"
                        /\ req'[r].calls = <<GamesCall(req'[r].userId)>>
         /\ (InFlight(req[r]) /\ Succeeded(req'[r]))
            => cache'[req[r].userId] = Entry(now, req'[r].items)]_vars

\* a request that found an entry of age exactly TTL and started the pipeline
C3_Witness ==
    \E r \in Slots :
        /\ req[r].pc = "games" /\ req[r].found = "stale"
        /\ cache[req[r].userId] = req[r].startEntry
        /\ now - req[r].startEntry.timestamp = CACHE_TTL

\* C4 as stated: a userId that is not a string of decimal digits is rejected
\* with 400 before the cache is read and before any upstream call.
C4_NonNumericRejected ==
    \A r \in Slots :
        ( /\ req[r].route = "gamepasses"
          /\ req[r].status # 429
          /\ ~AllNumeric(req[r].userId) )
        => ( /\ req[r].pc = "done" /\ req[r].status = 400
             /\ req[r].error = MsgInvalid
             /\ req[r].found = "" /\ req[r].calls = <<>> )

\* C5: the k-th gamepasses request of a client in its window is allowed for
\* k <= 100 and denied with the rate-limit body for k > 100; the other
\* clients' counters are not touched.
C5_FirstHundredAllowed ==
    [][\A r \in Slots :
         (req[r].pc = "idle" /\ req'[r].pc # "idle" /\ req'[r].route = "gamepasses")
         => LET c == req'[r].client
                k == window'[c].count
            IN  /\ k <= max => req'[r].status # 429
                /\ k > max => ( /\ req'[r].pc = "done" /\ req'[r].status = 429
                                /\ req'[r].error = MsgTooMany )
                /\ \A c2 \in Clients \ {c} : limiter'[c2] = limiter[c2]]_vars

\* the 101st request of one client is denied while another client is being served
C5_Witness ==
    \E r \in Slots :
        /\ req[r].pc = "done" /\ req[r].status = 429
        /\ window[req[r].client].count = max + 1
        /\ \E c2 \in Clients \ {req[r].client} :
             limiter[c2].totalHits > 0 /\ limiter[c2].totalHits < max

\* C6 as stated: in every interval of 15 minutes, at any offset, at most 100
\* requests of one client are allowed.
C6_AtMostMaxInAnyInterval == obs.allowed <= max

\* C6 amended: the limit holds per window of the limiter; an interval of 15
\* minutes at another offset overlaps at most two windows, so at most 200
\* requests of one client are allowed within it.
C6_AtMostTwiceMaxInAnyInterval == obs.allowed <= 2 * max

\* more than 100 requests were allowed inside one 15-minute interval
C6_Witness == obs.allowed > max /\ now < obs.start + windowMs

\* C7: every gamepasses request is counted by the limiter first, whatever
\* its outcome; a denied request is not validated, reads and writes no cache
\* and calls no upstream; only an accepted valid request reads the cache and
\* only a miss or a stale entry starts the pipeline.
C7_GateFirst ==
    [][\A r \in Slots :
         (req[r].pc = "idle" /\ req'[r].pc # "idle" /\ req'[r].route = "gamepasses")
         => LET c == req'[r].client
                q == req'[r]
            IN  /\ limiter'[c].totalHits =
                      IF limiter[c].resetTime <= now THEN 1 ELSE limiter[c].totalHits + 1
                /\ (q.status = 429) <=> (limiter'[c].totalHits > max)
                /\ (q.status = 429)
                   => ( /\ q.pc = "done" /\ ~q.validated /\ q.found = ""
                        /\ q.calls = <<>> /\ cache' = cache )
                /\ (q.status # 429) => q.validated
                /\ (q.found # "") => q.status \notin {429, 400}
                /\ (q.calls # <<>>) => q.found \in {"absent", "stale"}
                /\ (q.found = "fresh") => (q.pc = "done" /\ q.calls = <<>>)]_vars

\* a request denied by the gate although its identity has a fresh cache entry
C7_Witness ==
    \E r \in Slots :
        /\ req[r].pc = "done" /\ req[r].status = 429
        /\ req[r].userId = U7
        /\ CacheFresh(cache[U7], now)
        /\ ~req[r].validated

\* C8 as stated: a request to any route, GET / included, is counted by the
\* limiter (and so can be denied).
C8_EveryRouteLimited ==
    \A r \in Slots : req[r].pc # "idle" => req[r].counted

\* C9: the items returned are the upstream's sub-items, universes in listing
\* order and, per universe, pages in the order fetched and items in page
\* order; they are a function of the upstream's responses alone.
C9_OrderPreserved ==
    \A r \in Slots : Succeeded(req[r]) => Bare(req[r].items) = Expected(req[r])

\* universes [A, B], A's pages give [1] then [2], B gives [3]: the result is [1, 2, 3]
C9_Witness ==
    \E r \in Slots :
        /\ Succeeded(req[r])
        /\ Listed(req[r]) = <<UniverseA, UniverseB>>
        /\ PagesFrom(req[r], 10, 1) = <<GpA, GpB>>
        /\ PagesFrom(req[r], 20, 1) = <<GpC>>
        /\ Len(req[r].calls) = 5
        /\ PassIds(req[r].items) = <<1, 2, 3>>

\* C10: after the icon stage the list has the same length, order, ids, names
\* and prices; the first item of each id a lookup returned has the (last)
\* imageUrl returned for that id, every other item still has "", and an id
\* that no lookup returned does not fail the run.
C10_EnrichmentPerId ==
    \A r \in Slots :
        Succeeded(req[r])
        => LET items == req[r].items
               thumbs == ThumbsFrom(req[r], 1)
           IN  /\ Bare(items) = Expected(req[r])
               /\ \A i \in 1..Len(items) :
                    items[i].iconImageUrl =
                        IF /\ Returned(thumbs, items[i].id) # {}
                           /\ \A k \in 1..(i - 1) : items[k].id # items[i].id
                        THEN LastUrl(thumbs, items[i].id)
                        ELSE ""

\* ids [1, 2, 3] and a lookup that returns icons for 1 and 3 only
C10_Witness ==
    \E r \in Slots :
        /\ Succeeded(req[r])
        /\ PassIds(req[r].items) = <<1, 2, 3>>
        /\ ThumbsFrom(req[r], 1) = <<Thumb(1, "url1"), Thumb(3, "url3")>>
        /\ req[r].items[1].iconImageUrl = "url1"
        /\ req[r].items[2].iconImageUrl = ""
        /\ req[r].items[3].iconImageUrl = "url3"

----------------------------------------------------------------------------
\* C11: for a flat list of n ids the batch lookup is called ceil(n / 100)
\* times when every lookup succeeds (never for n = 0): the k-th call carries
\* the ids 100 (k - 1) + 1 .. min(100 k, n) of the list in order, so every
\* chunk but the last has 100 ids and the chunks concatenate to the id list.
C11_ChunksOfHundred ==
    \A r \in Slots :
        LET q == req[r]
            ids == PassIds(q.allGamePasses)
            n == Len(ids)
            T == ThumbCalls(q, 1)
            count == (n + ChunkSize - 1) \div ChunkSize
        IN  /\ Len(T) <= count
            /\ \A k \in 1..Len(T) :
                 /\ T[k] = SubSeq(ids, ChunkSize * (k - 1) + 1,
                                  IF ChunkSize * k < n THEN ChunkSize * k ELSE n)
                 /\ k < count => Len(T[k]) = ChunkSize
                 /\ k = count => Len(T[k]) = n - ChunkSize * (count - 1)
            /\ Succeeded(q) => (Len(T) = count /\ Concat(T) = ids)
            /\ (q.pc = "thumbs") => (n > 0 /\ Len(T) >= 1)

\* 150 ids: exactly two lookups, of 100 and of 50 ids
C11_Witness ==
    \E r \in Slots :
        /\ Succeeded(req[r])
        /\ Len(req[r].items) = 150
        /\ Len(ThumbCalls(req[r], 1)) = 2
        /\ Len(ThumbCalls(req[r], 1)[1]) = 100
        /\ Len(ThumbCalls(req[r], 1)[2]) = 50

----------------------------------------------------------------------------
\* C12: a run aborts at its first failing upstream call, whichever of the
\* three calls it is: the response is 502 with the forbidden message when
\* that call failed with status 403 and with the generic message for any
\* other failure; the step changes nothing but that request (the other
\* requests, the cache and the limiter stay as they are), and the server
\* goes on serving.
C12_AbortMessageByKind ==
    [][\A r \in Slots :
         (InFlight(req[r]) /\ req'[r] # req[r] /\ ~Last(req'[r].resps).ok)
         => ( /\ \A i \in 1..Len(req[r].resps) : req[r].resps[i].ok
              /\ req'[r].pc = "done" /\ req'[r].status = 502
              /\ req'[r].error = IF Last(req'[r].resps).status = 403
                                 THEN MsgForbidden
                                 ELSE MsgFailed
              /\ \A s \in Slots \ {r} : req'[s] = req[s]
              /\ cache' = cache /\ limiter' = limiter /\ now' = now )]_vars

\* a run that failed with 403 at the icon lookup, having found no entry and
\* with no write during its flight; a later run then filled the cache and a
\* third request was served from it
C12_Witness ==
    \E r, s \in Slots :
        /\ req[r].pc = "done" /\ req[r].status = 502
        /\ req[r].error = MsgForbidden
        /\ Last(req[r].calls).kind = "thumbs"
        /\ req[r].found = "absent" /\ ~raced[r]
        /\ req[s].pc = "done" /\ req[s].status = 200
        /\ req[s].found = "fresh" /\ req[s].userId = req[r].userId

----------------------------------------------------------------------------
\* C13: a request that finds no valid entry starts its own pipeline from the
\* owner listing with an empty list, even while another run for the same
\* identity is in flight; a step of one run leaves the other run's calls and
\* list alone; every run that succeeds writes (now, its own items) under its
\* identity, over whatever is there; so after two such runs have finished
\* the entry is the one of the run that wrote last.
C13_LastWriteWins ==
    [][\A r \in Slots :
         /\ ( /\ req[r].pc = "idle" /\ req'[r].pc # "idle"
              /\ req'[r].found \in {"absent", "stale"} )
            => ( /\ req'[r].pc = "games"
                 /\ req'[r].calls = <<GamesCall(req'[r].userId)>>
                 /\ req'[r].allGamePasses = <<>>
                 /\ cache' = cache )
         /\ (req'[r] # req[r]) => \A s \in Slots \ {r} : req'[s] = req[s]
         /\ (InFlight(req[r]) /\ Succeeded(req'[r]))
            => ( /\ Bare(req'[r].items) = Expected(req'[r])
                 /\ cache'[req[r].userId] = Entry(now, req'[r].items)
                 /\ req'[r].storedAt = now )
         /\ \A s \in Slots \ {r} :
              ( /\ Succeeded(req[r]) /\ Succeeded(req[s])
                /\ req[r].userId = req[s].userId
                /\ req[r].storedAt > req[s].storedAt )
              => cache[req[r].userId] = Entry(req[r].storedAt, req[r].items)]_vars

\* the only two requests so far, for one identity, both found no entry; the
\* one that arrived first finished later, with other items, and its items
\* and timestamp are what the cache holds
C13_Witness ==
    /\ limiter["ip1"].totalHits = 2
    /\ Succeeded(req[1]) /\ Succeeded(req[2])
    /\ req[1].userId = req[2].userId
    /\ req[1].found = "absent" /\ req[2].found = "absent"
    /\ req[1].items # req[2].items
    /\ req[1].storedAt > req[2].storedAt
    /\ cache[req[1].userId] = Entry(req[1].storedAt, req[1].items)

----------------------------------------------------------------------------
\* the pages of one run: a page call that follows a page whose response
\* carried a cursor other than "", null or absent asks the same universe for
\* exactly that cursor; any other page call is a first page (cursor "") of
\* another universe; a run that succeeded fetched a first page of every
\* listed universe
C14_CursorChain ==
    \A r \in Slots :
        LET q == req[r]
        IN  /\ \A i \in 2..Len(q.calls) :
                 (q.calls[i].kind = "passes")
                 => IF /\ q.calls[i - 1].kind = "passes"
                       /\ q.resps[i - 1].nextPageCursor \notin {"", CursorNull, CursorUndefined}
                    THEN /\ q.calls[i].cursor = q.resps[i - 1].nextPageCursor
                         /\ q.calls[i].universeId = q.calls[i - 1].universeId
                    ELSE /\ q.calls[i].cursor = ""
                         /\ q.calls[i].universeId # q.calls[i - 1].universeId
            /\ Succeeded(q)
               => \A k \in 1..Len(Listed(q)) :
                    \E i \in 1..Len(q.calls) :
                        /\ q.calls[i].kind = "passes"
                        /\ q.calls[i].universeId = Listed(q)[k].id
                        /\ q.calls[i].cursor = ""

\* C14: every universe's first page is fetched with the empty cursor, each
\* further page with the nextPageCursor of the previous response, and none
\* after the first response whose cursor is "", null or absent; when the
\* upstream ends every universe's pages and every call returns, the run
\* eventually responds.
C14_PaginationTerminates ==
    /\ []C14_CursorChain
    /\ \A r \in Slots : (InFlight(req[r]) ~> (req[r].pc = "done"))

\* universe A took two pages (cursor "" then "c1", ended by a null cursor),
\* universe B one page without a cursor field, and the run responded
C14_Witness ==
    \E r \in Slots :
        LET q == req[r]
        IN  /\ Succeeded(q)
            /\ Len(q.calls) >= 4
            /\ q.calls[2] = PassesCall(10, "")
            /\ q.resps[2].nextPageCursor = "c1"
            /\ q.calls[3] = PassesCall(10, "c1")
            /\ q.resps[3].nextPageCursor = CursorNull
            /\ q.calls[4] = PassesCall(20, "")
            /\ q.resps[4].nextPageCursor = CursorUndefined
            /\ \A i \in 5..Len(q.calls) : q.calls[i].kind = "thumbs"

----------------------------------------------------------------------------
\* the position of a universe in the owner listing (0 when not listed)
UIndex(q, universeId) ==
    LET ks == {k \in 1..Len(Listed(q)) : Listed(q)[k].id = universeId}
    IN  IF ks = {} THEN 0 ELSE CHOOSE k \in ks : \A j \in ks : k <= j

\* C15: the calls of one request are issued one at a time, each after the
\* previous one returned successfully: first the one owner listing call,
\* then the page calls, universe by universe in listing order without
\* skipping or returning to one, then the icon lookups, the first of them
\* only after the last page of the last universe has returned.
C15_SequentialStages ==
    \A r \in Slots :
        LET q == req[r]
            n == Len(q.calls)
        IN  /\ Len(q.resps) = IF InFlight(q) THEN n - 1 ELSE n
            /\ \A i \in 1..(n - 1) : q.resps[i].ok
            /\ n > 0 => q.calls[1] = GamesCall(q.userId)
            /\ \A i \in 2..n :
                 /\ q.calls[i].kind # "games"
                 /\ (q.calls[i].kind = "passes")
                    => /\ q.calls[i - 1].kind # "thumbs"
                       /\ UIndex(q, q.calls[i].universeId) =
                            IF q.calls[i - 1].kind = "games"
                            THEN 1
                            ELSE IF q.calls[i].cursor # ""
                            THEN UIndex(q, q.calls[i - 1].universeId)
                            ELSE UIndex(q, q.calls[i - 1].universeId) + 1
                 /\ (q.calls[i].kind = "thumbs" /\ q.calls[i - 1].kind # "thumbs")
                    => /\ q.calls[i - 1].kind = "passes"
                       /\ UIndex(q, q.calls[i - 1].universeId) = Len(Listed(q))
                       /\ q.resps[i - 1].nextPageCursor \in {"", CursorNull, CursorUndefined}

\* the first icon lookup is outstanding, after the listing, two pages of
\* universe A and one page of universe B have returned
C15_Witness ==
    \E r \in Slots :
        LET q == req[r]
        IN  /\ q.pc = "thumbs"
            /\ Len(q.calls) = 5 /\ Len(q.resps) = 4
            /\ q.calls[1].kind = "games"
            /\ q.calls[2].universeId = 10 /\ q.calls[3].universeId = 10
            /\ q.calls[4].universeId = 20
            /\ q.calls[5].kind = "thumbs"

----------------------------------------------------------------------------
\* C16: a 2xx response without the data list does not abort the run and
\* counts as an empty list: without it the owner listing gives no universe,
\* so the run issues no further call and caches and returns []; a page
\* without it adds no item; an icon lookup without it changes no item.
C16_MissingListIsEmpty ==
    [][\A r \in Slots :
         ( /\ InFlight(req[r]) /\ req'[r] # req[r]
           /\ Last(req'[r].resps).ok /\ ~Last(req'[r].resps).hasData )
         => LET kind == Last(req[r].calls).kind
                q == req'[r]
            IN  /\ q.status # 502
                /\ (q.pc = "done") => Succeeded(q)
                /\ q.allGamePasses = req[r].allGamePasses
                /\ (kind = "games")
                   => ( /\ q.universes = <<>>
                        /\ q.calls = req[r].calls
                        /\ Succeeded(q) /\ q.items = <<>>
                        /\ cache'[q.userId] = Entry(now, <<>>) )]_vars

\* a run that succeeded although a page and the icon lookup came without
\* their lists: the one item collected is returned, without an icon
C16_Witness ==
    \E r \in Slots :
        LET q == req[r]
        IN  /\ Succeeded(q)
            /\ \E i \in 1..Len(q.resps) : q.calls[i].kind = "passes" /\ ~q.resps[i].hasData
            /\ \E i \in 1..Len(q.resps) : q.calls[i].kind = "thumbs" /\ ~q.resps[i].hasData
            /\ Len(q.items) = 1 /\ q.items[1].iconImageUrl = ""
            /\ cache[q.userId].data = q.items

----------------------------------------------------------------------------
\* the items of a run as a function of the upstream's responses to its own
\* calls: the listed sub-items, each id's first item with the icon returned
OwnResult(q) ==
    LET gps == Expected(q)
        thumbs == ThumbsFrom(q, 1)
    IN  [i \in 1..Len(gps) |->
            [id |-> gps[i].id, name |-> gps[i].name, price |-> gps[i].price,
             iconImageUrl |->
                IF /\ Returned(thumbs, gps[i].id) # {}
                   /\ \A k \in 1..(i - 1) : gps[k].id # gps[i].id
                THEN LastUrl(thumbs, gps[i].id)
                ELSE ""]]

\* C17: a step of a request for one identity leaves the entry of every
\* other identity as it is; the entry a request reads is the one of its own
\* identity; what it returns is that entry's items (cache hit) or the result
\* of the upstream's responses to its own calls (pipeline).
C17_IdentitiesIndependent ==
    [][\A r \in Slots :
         /\ (req'[r] # req[r])
            => LET own == IF req[r].pc = "idle" THEN req'[r].userId ELSE req[r].userId
               IN  \A u \in UserIdInputs \ {own} : cache'[u] = cache[u]
         /\ (req[r].pc = "idle" /\ req'[r].found # "")
            => ( /\ req'[r].startEntry = cache[req'[r].userId]
                 /\ (req'[r].found = "fresh")
                    => req'[r].items = cache[req'[r].userId].data )
         /\ (InFlight(req[r]) /\ Succeeded(req'[r]))
            => ( /\ req'[r].userId = req[r].userId
                 /\ req'[r].items = OwnResult(req'[r]) )]_vars

\* two concurrent runs for different identities succeeded with different
\* items, and each identity's entry holds its own run's items
C17_Witness ==
    /\ Succeeded(req[1]) /\ Succeeded(req[2])
    /\ req[1].userId = U7 /\ req[2].userId = U42
    /\ req[1].found = "absent" /\ req[2].found = "absent"
    /\ req[1].items # req[2].items
    /\ cache[U7].data = req[1].items
    /\ cache[U42].data = req[2].items

----------------------------------------------------------------------------
\* C18: an identity that has an entry keeps having one; a step changes an
\* entry only when a run for that identity completes successfully, and then
\* replaces it by that run's (now, items), never an older timestamp; so a
\* request that reads a stale entry and a refresh that fails leave it there.
C18_NoEviction ==
    [][\A u \in UserIdInputs :
         /\ cache[u].present => cache'[u].present
         /\ (cache'[u] # cache[u])
            => \E r \in Slots :
                 /\ InFlight(req[r]) /\ Succeeded(req'[r])
                 /\ req[r].userId = u
                 /\ cache'[u] = Entry(now, req'[r].items)
                 /\ cache[u].present => cache[u].timestamp <= cache'[u].timestamp
         /\ \A r \in Slots :
              ( /\ req'[r] # req[r] /\ req'[r].userId = u
                /\ req'[r].found = "stale" /\ ~Succeeded(req'[r]) )
              => cache'[u] = cache[u]]_vars

\* a request found a stale entry, its refresh failed at the owner listing,
\* and the stale entry is still in the cache
C18_Witness ==
    \E r \in Slots :
        /\ req[r].pc = "done" /\ req[r].status = 502
        /\ req[r].found = "stale"
        /\ Len(req[r].resps) = 1
        /\ cache[req[r].userId].present
        /\ now - cache[req[r].userId].timestamp >= CACHE_TTL

----------------------------------------------------------------------------
\* C19: an entry is written only by the step that completes a run for its
\* identity: every upstream call of the run has returned successfully, the
\* entry's data is the run's final list (all pages, icons applied) and is
\* the list sent in the response of that same step, and the entry's
\* timestamp is the time of this step, not less than the timestamp of the
\* entry it replaces.
C19_EntryIsCompletedRun ==
    [][\A u \in UserIdInputs :
         (cache'[u] # cache[u])
         => \E r \in Slots :
              LET q == req'[r]
              IN  /\ InFlight(req[r]) /\ q.userId = u
                  /\ q.pc = "done" /\ q.status = 200
                  /\ Len(q.resps) = Len(q.calls)
                  /\ \A i \in 1..Len(q.resps) : q.resps[i].ok
                  /\ q.items = q.allGamePasses
                  /\ q.items = OwnResult(q)
                  /\ cache'[u].present
                  /\ cache'[u].data = q.items
                  /\ cache'[u].timestamp = now
                  /\ q.storedAt = now
                  /\ cache[u].timestamp <= cache'[u].timestamp]_vars

\* the only request so far arrived at time 0 (its window ends at windowMs)
\* and completed two time units later: the entry carries the later time
C19_Witness ==
    /\ limiter["ip1"] = [totalHits |-> 1, resetTime |-> windowMs]
    /\ Succeeded(req[1])
    /\ req[1].storedAt = 2
    /\ cache[req[1].userId] = Entry(2, req[1].items)
    /\ req[1].items # <<>>
    /\ req[1].items[1].iconImageUrl # ""

====
